---------------------------- MODULE Spec2Model ----------------------------
(***************************************************************************)
(* A model of custom_components/synology_virtual_album/synology_photos.py: *)
(* the year-agnostic calendar comparison (is_today, is_this_week), the     *)
(* album selection of rebuild_virtual_album, and the SynologyPhotos        *)
(* session with its store, its write-behind last-viewed buffer and the     *)
(* asyncio tasks that interleave at every await.                           *)
(***************************************************************************)
EXTENDS Integers, Sequences, FiniteSets, TLC

VARIABLES
    cal,                   \* the calendar comparison being evaluated (SpecCalendar)
    sel,                   \* the selection being evaluated (SpecSelect)
    config_entry,          \* self.config_entry.data
    _current_album_items,  \* self._current_album_items
    _last_viewed,          \* self._last_viewed
    _last_store,           \* self._last_store
    _running_store,        \* self._running_store: the task it refers to
    _store,                \* what self._store holds durably
    clock_now,             \* datetime.datetime.now(), in seconds
    clock_today,           \* datetime.date.today()
    init_task,             \* the task running _async_init
    call,                  \* the caller of rebuild_virtual_album / get_virtual_album_items
    flush,                 \* the tasks running _write_store for _queue_cache_write
    view,                  \* the last run of _async_update_current_image
    events                 \* EVENT_CURRENT_PHOTO_CHANGED events fired on the bus

svars == <<config_entry, _current_album_items, _last_viewed, _last_store,
           _running_store, _store, clock_now, clock_today, init_task, call, flush,
           view, events>>

vars == <<cal, sel, svars>>

\* Python's None
None == "None"

Min(a, b) == IF a <= b THEN a ELSE b

Range(s) == {s[i] : i \in 1..Len(s)}

(***************************************************************************)
(* Calendar: datetime.date as a record [year, month, day].                 *)
(***************************************************************************)

\* calendar.isleap
isleap(year) == (year % 4 = 0) /\ ((year % 100 # 0) \/ (year % 400 = 0))

\* days of a month of the proleptic Gregorian calendar (datetime.date)
DaysInMonth(year, month) ==
    IF month = 2 THEN (IF isleap(year) THEN 29 ELSE 28)
    ELSE IF month \in {4, 6, 9, 11} THEN 30 ELSE 31

\* the years datetime.date.today() and the capture dates are drawn from:
\* common and leap years, equal and different
TodayYears == {2023, 2024}

CaptureYears == {2020, 2022, 2023, 2024}

DatesOf(years) ==
    {d \in [year : years, month : 1..12, day : 1..31] :
        d.day <= DaysInMonth(d.year, d.month)}

\* date.timetuple().tm_yday: the day of the year, 1..365/366
RECURSIVE DaysBeforeMonth(_, _)
DaysBeforeMonth(year, month) ==
    IF month = 1 THEN 0
    ELSE DaysBeforeMonth(year, month - 1) + DaysInMonth(year, month - 1)

tm_yday(d) == DaysBeforeMonth(d.year, d.month) + d.day

\* _make_day_comparable without the leap-day rewrite (lines 83-86 dropped)
make_day_comparable_noleapday(date1, date2) ==
    IF isleap(date1.year) # isleap(date2.year)
    THEN LET a == IF isleap(date1.year)
                  THEN [date1 EXCEPT !.year = date2.year] ELSE date1
             b == IF isleap(date2.year)
                  THEN [date2 EXCEPT !.year = a.year] ELSE date2
         IN  <<a, b>>
    ELSE <<date1, date2>>

\* _make_day_comparable: the pair (date1, date2) after the adjustment
make_day_comparable(date1, date2) ==
    IF isleap(date1.year) # isleap(date2.year)
    THEN LET s1 == IF date1.month = 2 /\ date1.day = 29
                   THEN <<[date1 EXCEPT !.day = 28, !.year = date2.year], date2>>
                   ELSE IF date2.month = 2 /\ date2.day = 29
                   THEN <<date1, [date2 EXCEPT !.day = 28, !.year = date1.year]>>
                   ELSE <<date1, date2>>
             a == IF isleap(s1[1].year)
                  THEN [s1[1] EXCEPT !.year = s1[2].year] ELSE s1[1]
             b == IF isleap(s1[2].year)
                  THEN [s1[2] EXCEPT !.year = a.year] ELSE s1[2]
         IN  <<a, b>>
    ELSE <<date1, date2>>

\* is_today, with datetime.date.today() passed in as today
is_today(today, compare_date) ==
    LET c == make_day_comparable(today, compare_date)
    IN  c[2].month = c[1].month /\ c[2].day = c[1].day

\* is_this_week with the wraparound applied whenever the days differ by
\* more than a week in either direction (an absolute distance)
this_week_delta_abs(today, compare_date) ==
    LET c == make_day_comparable(today, compare_date)
        a == tm_yday(c[1])
        b == tm_yday(c[2])
        d == IF a < b THEN b - a ELSE a - b
        days_in_year == tm_yday([c[1] EXCEPT !.month = 12, !.day = 31])
    IN  IF d > 7 THEN days_in_year - d ELSE d

\* is_this_week without the wraparound of lines 120-122
this_week_delta_nowrap(today, compare_date) ==
    LET c == make_day_comparable(today, compare_date)
    IN  tm_yday(c[2]) - tm_yday(c[1])

\* the local delta of is_this_week (line 124)
this_week_delta(today, compare_date) ==
    LET c == make_day_comparable(today, compare_date)
        today_day0 == tm_yday(c[1])
        compare_day == tm_yday(c[2])
        days_in_year == tm_yday([c[1] EXCEPT !.month = 12, !.day = 31])
        today_day == IF compare_day < today_day0
                     THEN today_day0 - days_in_year ELSE today_day0
    IN  compare_day - today_day

\* is_this_week, with datetime.date.today() passed in as today
is_this_week(today, compare_date) == this_week_delta(today, compare_date) <= 7

(***************************************************************************)
(* Selection: lines 323-373 of rebuild_virtual_album.  A photo item is a   *)
(* record [item_id, source_album_id, time, thumbnail_cache_key]            *)
(* (SynoPhotosItemEx); compared field by field, as a dataclass is.         *)
(***************************************************************************)

\* the most source items a rebuild fetches
MaxSourceItems == 3

\* the largest max_album_items configured
MaxAlbumItems == 3

\* the largest daily and weekly quota configured
MaxQuota == 2

\* the source albums of the provider, by id; the config holds the ids as strings
AlbumIds == {1, 2}
int(str) == IF str = "1" THEN 1 ELSE IF str = "2" THEN 2 ELSE 0

\* the JSON object key an item id is saved as, and int(k) of _read_store (line 207)
StrKey(id) == <<"str", id>>
IntKey(k) == k[2]

\* dict.get(key, default) on a function whose domain is the dict's keys
DictGet(d, k, default) == IF k \in DOMAIN d THEN d[k] ELSE default

EmptyDict == [k \in {} |-> 0]

\* what Store.async_load returns for a store never saved: None
NoData == [is_none |-> TRUE, current_album |-> <<>>, last_viewed |-> EmptyDict]

\* dict.update(other)
DictUpdate(d, other) ==
    [k \in (DOMAIN d) \cup (DOMAIN other) |->
        IF k \in DOMAIN other THEN other[k] ELSE d[k]]

\* list[:max_count], also for a negative max_count
Slice(photos, max_count) ==
    LET n == IF max_count >= 0 THEN Min(max_count, Len(photos))
             ELSE IF Len(photos) + max_count > 0 THEN Len(photos) + max_count ELSE 0
    IN  SubSeq(photos, 1, n)

\* _get_subset taking the last max_count items instead of the first
get_subset_tail(photos, max_count) ==
    IF Len(photos) <= max_count THEN photos
    ELSE SubSeq(photos, Len(photos) - Len(Slice(photos, max_count)) + 1, Len(photos))

\* SynologyPhotos._get_subset
get_subset(photos, max_count) ==
    IF Len(photos) <= max_count THEN photos ELSE Slice(photos, max_count)

\* the permutations of 1..n, for random.shuffle
PermsOf ==
    [n \in 0..MaxSourceItems |->
        {p \in [1..n -> 1..n] : \A i, j \in 1..n : p[i] = p[j] => i = j}]

\* the lists random.shuffle(items) can leave (line 325)
Shuffles(items) ==
    {[i \in 1..Len(items) |-> items[p[i]]] : p \in PermsOf[Len(items)]}

\* a sort key that puts the most recently viewed first
SortKeyLatestFirst(item, last_viewed) == 0 - DictGet(last_viewed, item.item_id, 0)

\* the sort key of line 331
SortKey(item, last_viewed) == DictGet(last_viewed, item.item_id, 0)

\* list.sort is stable: x goes after every item whose key is not greater
RECURSIVE InsertByKey(_, _, _)
InsertByKey(x, sorted, last_viewed) ==
    IF sorted = <<>> THEN <<x>>
    ELSE IF SortKey(x, last_viewed) < SortKey(Head(sorted), last_viewed)
         THEN <<x>> \o sorted
         ELSE <<Head(sorted)>> \o InsertByKey(x, Tail(sorted), last_viewed)

RECURSIVE SortFrom(_, _, _)
SortFrom(items, acc, last_viewed) ==
    IF items = <<>> THEN acc
    ELSE SortFrom(Tail(items), InsertByKey(Head(items), acc, last_viewed), last_viewed)

\* source_items.sort(key=lambda item: last_viewed.get(item.item_id, 0))
sort_by_last_viewed(items, last_viewed) == SortFrom(items, <<>>, last_viewed)

\* the shuffled list left as it is, never sorted
sorted_source_never(shuffled, stored_data) == shuffled

\* lines 328-331: the sort happens only with a stored, non-empty last_viewed
sorted_source(shuffled, stored_data) ==
    IF ~stored_data.is_none /\ DOMAIN stored_data.last_viewed # {}
    THEN sort_by_last_viewed(shuffled, stored_data.last_viewed)
    ELSE shuffled

\* lines 325-331: the lists source_items can be after the shuffle and the sort
shuffled_and_sorted(source_items, stored_data) ==
    {sorted_source(shuffled, stored_data) : shuffled \in Shuffles(source_items)}

\* the wall clock's date during a selection
SelToday == [year |-> 2024, month |-> 12, day |-> 30]

\* capture dates: the same day of another year, three days ahead across the
\* year end, and the day before
CaptureDates ==
    <<[year |-> 2021, month |-> 12, day |-> 30],
      [year |-> 2022, month |-> 1, day |-> 2],
      [year |-> 2023, month |-> 12, day |-> 29]>>

\* the dates the wall clock shows
ClockDates == {SelToday}

\* a SynoPhotosItemEx; the thumbnail cache key of a photo is its id here
Photo(id, album, date) ==
    [item_id |-> id, source_album_id |-> album, time |-> date,
     thumbnail_cache_key |-> id]

\* the buckets with the test of this week made before the test of today
BucketWeekFirst ==
    [today \in ClockDates, time \in Range(CaptureDates) |->
        IF is_this_week(today, time) THEN "week"
        ELSE IF is_today(today, time) THEN "day"
        ELSE "none"]

\* the bucket of lines 347-350 for each clock date and capture date used
\* (a table of is_today and is_this_week, evaluated once)
Bucket ==
    [today \in ClockDates, time \in Range(CaptureDates) |->
        IF is_today(today, time) THEN "day"
        ELSE IF is_this_week(today, time) THEN "week"
        ELSE "none"]

\* lines 346-350: the items appended to this_day_items and this_week_items
this_day_items(source_items, today) ==
    SelectSeq(source_items, LAMBDA item : Bucket[today, item.time] = "day")

this_week_items(source_items, today) ==
    SelectSeq(source_items, LAMBDA item : Bucket[today, item.time] = "week")

\* the selection with a weekly subset that does not count the daily one
select_items_week_uncapped(source_items, config, today) ==
    LET max_album_items == config.max_album_items
        daily_max == Min(config.daily, max_album_items)
        weekly_max == Min(config.weekly, max_album_items)
        day == get_subset(this_day_items(source_items, today),
                          Min(daily_max, max_album_items))
        week == get_subset(this_week_items(source_items, today),
                           Min(weekly_max, max_album_items))
        first == IF daily_max > 0 \/ weekly_max > 0 THEN day \o week ELSE <<>>
        unused == IF daily_max > 0 \/ weekly_max > 0
                  THEN SelectSeq(source_items, LAMBDA item : item \notin Range(first))
                  ELSE source_items
    IN  first \o get_subset(unused,
                            Min(max_album_items, max_album_items - Len(first)))

\* lines 333-371: new_items from the sorted source_items
select_items(source_items, config, today) ==
    LET max_album_items == config.max_album_items
        daily_max == Min(config.daily, max_album_items)
        weekly_max == Min(config.weekly, max_album_items)
        day == get_subset(this_day_items(source_items, today),
                          Min(daily_max, max_album_items))
        week == get_subset(this_week_items(source_items, today),
                           Min(weekly_max, max_album_items - Len(day)))
        first == IF daily_max > 0 \/ weekly_max > 0 THEN day \o week ELSE <<>>
        unused == IF daily_max > 0 \/ weekly_max > 0
                  THEN SelectSeq(source_items, LAMBDA item : item \notin Range(first))
                  ELSE source_items
    IN  first \o get_subset(unused,
                            Min(max_album_items, max_album_items - Len(first)))

\* the config entry before it is read
NoConfig ==
    [source_albums |-> <<>>, max_album_items |-> 0, daily |-> 0, weekly |-> 0]

\* the selection's state while another specification runs
SelIdle ==
    [pc |-> "off", source_items |-> <<>>, stored_data |-> NoData,
     sorted_items |-> <<>>, config |-> NoConfig, today |-> SelToday, new_items |-> <<>>]

(***************************************************************************)
(* The session: SynologyPhotos, the store, the provider and the clock.     *)
(* Every await of a provider or store call is a point where the tasks      *)
(* interleave; an action is the return (or the exception) of one awaited   *)
(* call followed by the code up to the next await.                         *)
(***************************************************************************)

STORE_INTERVAL_SECONDS == 10 * 60

\* chunk_size of get_items_from_album_chunked
chunk_size == 100

\* self._last_store = None
NoTime == -1

\* the values of self._running_store: None, the task of __init__, a flush task
NoTask == [kind |-> "none", id |-> 0]
InitTask == [kind |-> "init", id |-> 0]
FlushTask(i) == [kind |-> "flush", id |-> i]

\* the most flush tasks a session creates
MaxFlush == 2

\* the clock stops after this many steps of STORE_INTERVAL_SECONDS
MaxTicks == 4

\* the most handlers of _async_update_current_image waiting for get_info
MaxAwaitingInfo == 1

\* the most events fired on the bus
MaxEvents == 1

\* the most calls of rebuild_virtual_album, get_virtual_album_items and shutdown
MaxCalls == 2

\* date.toordinal()
DaysBeforeYear(year) ==
    LET y == year - 1 IN y * 365 + (y \div 4) - (y \div 100) + (y \div 400)

toordinal(d) == DaysBeforeYear(d.year) + tm_yday(d)

\* the provider of the session: one album of two photos
SessionAlbums ==
    [a \in {1} |->
        <<Photo(1, 1, CaptureDates[3]), Photo(2, 1, CaptureDates[3])>>]

\* get_items_from_album_ex: the page of an album at offset
get_items_from_album_ex(album, offset, limit) ==
    SubSeq(album, offset + 1, Min(offset + limit, Len(album)))

\* _get_source_items between its awaits: the album being read (idx), the call
\* awaited (get_album or a page), the page offset and source_items so far
fetch_begin == [idx |-> 1, phase |-> "album", offset |-> 0, items |-> <<>>]

fetch_done(f, source_albums) == f.idx > Len(source_albums)

\* the awaited call of a fetch returns: lines 303-310 up to the next await
fetch_step(f, source_albums, albums) ==
    LET source_album_id == int(source_albums[f.idx])
        page == get_items_from_album_ex(albums[source_album_id], f.offset, chunk_size)
    IN  IF f.phase = "album"
        THEN IF source_album_id \in DOMAIN albums
             THEN [f EXCEPT !.phase = "page", !.offset = 0]
             ELSE [f EXCEPT !.idx = @ + 1]
        ELSE IF page # <<>>
             THEN [f EXCEPT !.items = @ \o page, !.offset = @ + Len(page)]
             ELSE [f EXCEPT !.idx = @ + 1, !.phase = "album", !.offset = 0]

\* _get_source_items from f to its return.  Its awaits only read the provider,
\* which no step of the session writes, so they are taken as one step.
RECURSIVE fetch_run(_, _, _)
fetch_run(f, source_albums, albums) ==
    IF fetch_done(f, source_albums) THEN f.items
    ELSE fetch_run(fetch_step(f, source_albums, albums), source_albums, albums)

\* the JSON document async_save writes: item ids become string keys
to_json(data) ==
    [is_none |-> FALSE,
     current_album |-> data.current_album,
     last_viewed |-> [k \in {StrKey(id) : id \in DOMAIN data.last_viewed} |->
                         data.last_viewed[IntKey(k)]]]

\* _read_store: async_load, then the keys of last_viewed back to integers
read_store(stored) ==
    IF stored.is_none THEN NoData
    ELSE [is_none |-> FALSE,
          current_album |-> stored.current_album,
          last_viewed |-> [id \in {IntKey(k) : k \in DOMAIN stored.last_viewed} |->
                              stored.last_viewed[StrKey(id)]]]

\* _write_store saving the new mapping in place of the stored one
write_store_data_replace(current, new_last_viewed, album_items) ==
    [current_album |-> album_items, last_viewed |-> new_last_viewed]

\* _write_store saving the stored mapping as it was read, without the views
write_store_data_without_views(current, new_last_viewed, album_items) ==
    LET current_data ==
            IF current.is_none
            THEN [last_viewed |-> EmptyDict, current_album |-> <<>>]
            ELSE [last_viewed |-> current.last_viewed,
                  current_album |-> current.current_album]
    IN  [current_album |-> IF album_items # <<>> THEN album_items
                           ELSE current_data.current_album,
         last_viewed |-> current_data.last_viewed]

\* _write_store, lines 217-223: the data to save, from what _read_store
\* returned.  A None argument and an empty one take the same branches (lines
\* 220 and 222), so None is the empty dict and the empty list here.
write_store_data(current, new_last_viewed, album_items) ==
    LET current_data ==
            IF current.is_none
            THEN [last_viewed |-> EmptyDict, current_album |-> <<>>]
            ELSE [last_viewed |-> current.last_viewed,
                  current_album |-> current.current_album]
    IN  [current_album |-> IF album_items # <<>> THEN album_items
                           ELSE current_data.current_album,
         last_viewed |-> IF DOMAIN new_last_viewed # {}
                         THEN DictUpdate(current_data.last_viewed, new_last_viewed)
                         ELSE current_data.last_viewed]

NoSaveData == [current_album |-> <<>>, last_viewed |-> EmptyDict]

\* dict.fromkeys(new_ids, cur_date)
fromkeys(ids, value) == [id \in Range(ids) |-> value]

\* next((item for item in items if item.item_id == item_id), None), as a list
\* of at most one item
FirstWithId(items, item_id) ==
    LET found == SelectSeq(items, LAMBDA item : item.item_id = item_id)
    IN  IF found = <<>> THEN <<>> ELSE <<Head(found)>>

\* next((item for item in items if item.thumbnail_cache_key == key), None), as
\* a list of at most one item
FirstWithKey(items, thumbnail_cache_key) ==
    LET found == SelectSeq(items,
                           LAMBDA item : item.thumbnail_cache_key = thumbnail_cache_key)
    IN  IF found = <<>> THEN <<>> ELSE <<Head(found)>>

\* lines 189-194: the items of source_items matching the stored album ids
RECURSIVE matched_items(_, _)
matched_items(current_album, source_items) ==
    IF current_album = <<>> THEN <<>>
    ELSE FirstWithId(source_items, Head(current_album))
         \o matched_items(Tail(current_album), source_items)

IdleCall ==
    [calls |-> 0, op |-> "none", pc |-> "idle", source_items |-> <<>>,
     data |-> NoSaveData, before |-> <<>>, init_ended |-> FALSE, rebuilt |-> FALSE,
     failed_at |-> "none", task |-> NoTask, in_flight |-> {},
     current |-> NoData, last_viewed |-> EmptyDict]

IdleFlush ==
    [pc |-> "idle", started |-> NoTime, last_viewed |-> EmptyDict, current |-> NoData,
     data |-> NoSaveData]

IdleView == [result |-> "none", log |-> "none", awaiting_info |-> 0]

\* the session's state while another specification runs
SessionOff ==
    /\ config_entry = NoConfig
    /\ _current_album_items = <<>>
    /\ _last_viewed = EmptyDict
    /\ _last_store = NoTime
    /\ _running_store = NoTask
    /\ _store = NoData
    /\ clock_now = 0
    /\ clock_today = SelToday
    /\ init_task = [pc |-> "off", current_album |-> <<>>]
    /\ call = IdleCall
    /\ flush = [i \in 1..MaxFlush |-> IdleFlush]
    /\ view = IdleView
    /\ events = 0

(***************************************************************************)
(* SpecCalendar: the two comparisons applied to every pair of dates.       *)
(***************************************************************************)

\* the comparison's state while another specification runs
CalIdle ==
    [pc |-> "off", today |-> None, compare_date |-> None,
     is_today |-> FALSE, is_this_week |-> FALSE, delta |-> 0]

CalInit ==
    /\ sel = SelIdle
    /\ SessionOff
    /\ \E t \in DatesOf(TodayYears), c \in DatesOf(CaptureYears) :
        cal = [pc |-> "input", today |-> t, compare_date |-> c,
               is_today |-> FALSE, is_this_week |-> FALSE, delta |-> 0]

CalCompare ==
    /\ cal.pc = "input"
    /\ cal' = [cal EXCEPT !.pc = "done",
                          !.is_today = is_today(cal.today, cal.compare_date),
                          !.is_this_week = is_this_week(cal.today, cal.compare_date),
                          !.delta = this_week_delta(cal.today, cal.compare_date)]
    /\ UNCHANGED <<sel, svars>>

CalNext == CalCompare

SpecCalendar == CalInit /\ [][CalNext]_vars

\* the days of a year-agnostic year as the comparison counts them
DaysInYearOf(d) == IF isleap(d.year) THEN 366 ELSE 365

\* the days from the day of the year of today forward to the day of the year
\* of compare_date, both taken in the year _make_day_comparable leaves them in
ForwardDays(today, compare_date) ==
    LET c == make_day_comparable(today, compare_date)
    IN  (tm_yday(c[2]) - tm_yday(c[1])) % DaysInYearOf(c[1])

\* the days between the two days of the year in either direction, the shorter way
AbsoluteDays(today, compare_date) ==
    Min(ForwardDays(today, compare_date),
        DaysInYearOf(make_day_comparable(today, compare_date)[1])
            - ForwardDays(today, compare_date))

CalDone == cal.pc = "done"

\* C6 as stated: is_this_week is true exactly when the wrapped absolute
\* distance between the two days of the year is at most 7
C6_AbsoluteDistance ==
    CalDone => (cal.is_this_week <=> AbsoluteDays(cal.today, cal.compare_date) <= 7)

\* C6: is_this_week is true exactly when compare_date is at most 7 days
\* ahead of today, ignoring the year and wrapping at the year end: 7 days
\* after today gives true, 8 days after gives false, and 1 to 8 days before
\* today gives false
C6_ForwardDistance ==
    CalDone =>
        /\ cal.is_this_week <=> ForwardDays(cal.today, cal.compare_date) <= 7
        /\ toordinal(cal.compare_date) - toordinal(cal.today) \in 0..7
               => cal.is_this_week
        /\ toordinal(cal.compare_date) - toordinal(cal.today) \in {8} \cup (-8)..(-1)
               => ~cal.is_this_week

C6_SevenDaysBefore ==
    /\ CalDone
    /\ toordinal(cal.compare_date) - toordinal(cal.today) = -7
    /\ ~cal.is_this_week

IsDay(d, month, day) == d.month = month /\ d.day = day

\* C7 as stated: Dec 30 against Jan 2 of a different year gives true with a
\* delta of 3 in both argument orders
C7_BothOrders ==
    CalDone /\ cal.today.year # cal.compare_date.year =>
        /\ IsDay(cal.today, 12, 30) /\ IsDay(cal.compare_date, 1, 2)
               => cal.is_this_week /\ cal.delta = 3
        /\ IsDay(cal.today, 1, 2) /\ IsDay(cal.compare_date, 12, 30)
               => cal.is_this_week /\ cal.delta = 3

\* C7: with today Dec 30 and compare_date Jan 2 of a different year
\* is_this_week is true with a delta of 3; with today Jan 2 and compare_date
\* Dec 30 of a different year it is false, the delta being the 362 days (363
\* when both years are leap years) from Jan 2 forward to Dec 30
C7_ForwardOnly ==
    CalDone /\ cal.today.year # cal.compare_date.year =>
        /\ IsDay(cal.today, 12, 30) /\ IsDay(cal.compare_date, 1, 2)
               => cal.is_this_week /\ cal.delta = 3
        /\ IsDay(cal.today, 1, 2) /\ IsDay(cal.compare_date, 12, 30)
               => /\ ~cal.is_this_week
                  /\ cal.delta = IF isleap(cal.today.year)
                                    /\ isleap(cal.compare_date.year)
                                 THEN 363 ELSE 362

C7_JanToDec ==
    /\ CalDone
    /\ cal.today.year # cal.compare_date.year
    /\ IsDay(cal.today, 1, 2) /\ IsDay(cal.compare_date, 12, 30)
    /\ ~cal.is_this_week
    /\ cal.delta = 363

\* one of the two dates is Feb 29 (of a leap year), the other Feb 28 of a common year
LeapDayPair(d, e) == IsDay(d, 2, 29) /\ IsDay(e, 2, 28) /\ ~isleap(e.year)

\* C8: is_today is true for Feb 29 against Feb 28 of a common year in either
\* order, and for every other pair exactly when month and day are equal
C8_SameDay ==
    CalDone =>
        (cal.is_today <=>
            IF LeapDayPair(cal.today, cal.compare_date)
               \/ LeapDayPair(cal.compare_date, cal.today)
            THEN TRUE
            ELSE /\ cal.today.month = cal.compare_date.month
                 /\ cal.today.day = cal.compare_date.day)

C8_LeapDayToday ==
    /\ CalDone
    /\ LeapDayPair(cal.today, cal.compare_date)
    /\ cal.is_today

\* _get_source_items on a provider whose album a holds the list albums[a];
\* get_album returns None for an id the provider does not hold
get_source_items(source_albums, albums) ==
    fetch_run(fetch_begin, source_albums, albums)

(***************************************************************************)
(* SpecSelect: one rebuild's selection on every small library.  Photo ids  *)
(* are interchangeable (the shuffle of line 325 discards the source        *)
(* order), so the libraries are enumerated up to a renaming of the ids:    *)
(* photos in order of (capture date, last viewed).                         *)
(***************************************************************************)

\* last-viewed ordinals of the store; 0 stands for no entry
ViewedValues == {0, 1, 2}

Libraries ==
    UNION {
        {l \in [1..n -> [date : 1..Len(CaptureDates), viewed : ViewedValues]] :
            \A i \in 1..(n - 1) :
                \/ l[i].date < l[i + 1].date
                \/ l[i].date = l[i + 1].date /\ l[i].viewed <= l[i + 1].viewed}
        : n \in 0..MaxSourceItems}

\* album 1 holds every photo, album 2 the photo shared (0: none)
LibraryAlbums(l, shared) ==
    [a \in AlbumIds |->
        IF a = 1 THEN [i \in 1..Len(l) |-> Photo(i, 1, CaptureDates[l[i].date])]
        ELSE IF shared = 0 THEN <<>>
        ELSE <<Photo(shared, 2, CaptureDates[l[shared].date])>>]

LibraryStore(l) ==
    [is_none |-> FALSE, current_album |-> <<>>,
     last_viewed |-> [i \in {j \in 1..Len(l) : l[j].viewed # 0} |-> l[i].viewed]]

Configs ==
    [source_albums : {<<"1", "2">>},
     max_album_items : 0..MaxAlbumItems,
     daily : 0..MaxQuota,
     weekly : 0..MaxQuota]

SelInit ==
    /\ cal = CalIdle
    /\ SessionOff
    /\ \E l \in Libraries, shared \in 0..MaxSourceItems, never_saved \in BOOLEAN :
        /\ shared <= Len(l)
        /\ Len(l) + (IF shared = 0 THEN 0 ELSE 1) <= MaxSourceItems
        /\ never_saved => \A i \in 1..Len(l) : l[i].viewed = 0
        /\ sel = [pc |-> "fetched",
                  source_items |->
                      get_source_items(<<"1", "2">>, LibraryAlbums(l, shared)),
                  stored_data |-> IF never_saved THEN NoData ELSE LibraryStore(l),
                  sorted_items |-> <<>>,
                  config |-> NoConfig,
                  today |-> SelToday,
                  new_items |-> <<>>]

\* lines 325-331: shuffle, load the store, sort
SelShuffleSort ==
    /\ sel.pc = "fetched"
    /\ \E source_items \in shuffled_and_sorted(sel.source_items, sel.stored_data) :
        sel' = [sel EXCEPT !.pc = "sorted", !.sorted_items = source_items]
    /\ UNCHANGED <<cal, svars>>

\* lines 333-373: read the quotas from the config entry and select
SelSelect ==
    /\ sel.pc = "sorted"
    /\ \E config \in Configs :
        sel' = [sel EXCEPT
                   !.pc = "selected",
                   !.config = config,
                   !.new_items = select_items(sel.sorted_items, config, sel.today)]
    /\ UNCHANGED <<cal, svars>>

SelNext == SelShuffleSort \/ SelSelect

SpecSelect == SelInit /\ [][SelNext]_vars

SelDone == sel.pc = "selected"

ItemIds(items) == [i \in 1..Len(items) |-> items[i].item_id]

NoDuplicates(seq) == \A i, j \in 1..Len(seq) : seq[i] = seq[j] => i = j

\* C1: a selection is no longer than max_album_items, no longer than the
\* source list, and holds no item id twice
C1_SelectionBounds ==
    SelDone =>
        /\ Len(sel.new_items) <= sel.config.max_album_items
        /\ Len(sel.new_items) <= Len(sel.source_items)
        /\ NoDuplicates(ItemIds(sel.new_items))

\* the positions of items that the loop of lines 346-350 puts in a bucket
InBucket(items, bucket) ==
    {i \in 1..Len(items) : Bucket[sel.today, items[i].time] = bucket}

\* the stored last-viewed ordinal of an item, 0 without an entry
Recency(item) == DictGet(sel.stored_data.last_viewed, item.item_id, 0)

\* every today and this-week item of the source fits its quota and the album
AllFit ==
    /\ Cardinality(InBucket(sel.source_items, "day"))
           <= Min(sel.config.daily, sel.config.max_album_items)
    /\ Cardinality(InBucket(sel.source_items, "week"))
           <= Min(sel.config.weekly, sel.config.max_album_items)
    /\ Cardinality(InBucket(sel.source_items, "day"))
           + Cardinality(InBucket(sel.source_items, "week"))
           <= sel.config.max_album_items

\* C2: when all today and this-week items fit, the selection holds each of
\* them, and of the other items exactly as many as fit, none of them viewed
\* later than one left out
C2_AllFitAllIncluded ==
    SelDone /\ AllFit =>
        /\ \A i \in InBucket(sel.source_items, "day") \cup InBucket(sel.source_items, "week") :
               sel.source_items[i] \in Range(sel.new_items)
        /\ Cardinality(InBucket(sel.new_items, "none"))
               = Min(sel.config.max_album_items
                         - Cardinality(InBucket(sel.source_items, "day"))
                         - Cardinality(InBucket(sel.source_items, "week")),
                     Cardinality(InBucket(sel.source_items, "none")))
        /\ \A i \in InBucket(sel.new_items, "none"),
             j \in InBucket(sel.source_items, "none") :
               sel.source_items[j] \notin Range(sel.new_items)
                   => Recency(sel.new_items[i]) <= Recency(sel.source_items[j])

C2_TodayAndLeastRecent ==
    /\ SelDone
    /\ AllFit
    /\ InBucket(sel.source_items, "day") # {}
    /\ \E i \in InBucket(sel.new_items, "none"),
           j \in InBucket(sel.source_items, "none") :
           /\ sel.source_items[j] \notin Range(sel.new_items)
           /\ Recency(sel.new_items[i]) < Recency(sel.source_items[j])

(***************************************************************************)
(* Spec: the session from its construction on.                             *)
(***************************************************************************)

\* the ordinal of the day before the session starts
Yesterday == toordinal(SelToday) - 1

\* the config entries of the session: source album 1 is an album of the
\* provider, source album 2 is one get_album does not find
SessionConfigs ==
    {[source_albums |-> <<"1", "2">>, max_album_items |-> 1, daily |-> 1, weekly |-> 1,
      current_image |-> b] : b \in BOOLEAN}

\* the store at construction: never saved, or left by an earlier run
InitialStores ==
    {NoData,
     to_json([current_album |-> <<1>>,
              last_viewed |-> [id \in {1} |-> Yesterday]])}

\* __init__, lines 153-170
Init ==
    /\ cal = CalIdle
    /\ sel = SelIdle
    /\ config_entry \in SessionConfigs
    /\ _store \in InitialStores
    /\ _current_album_items = <<>>
    /\ _last_viewed = EmptyDict
    /\ _last_store = NoTime
    /\ _running_store = InitTask
    /\ clock_now = 0
    /\ clock_today = SelToday
    /\ init_task = [pc |-> "load", current_album |-> <<>>]
    /\ call = IdleCall
    /\ flush = [i \in 1..MaxFlush |-> IdleFlush]
    /\ view = IdleView
    /\ events = 0

\* _async_init ending without the items of the stored album
InitFinishEmpty(source_items) ==
    /\ UNCHANGED _current_album_items
    /\ _running_store' = NoTask
    /\ init_task' = [pc |-> "done", current_album |-> <<>>]

\* _async_init, lines 189-200, with source_items fetched
InitFinish(source_items) ==
    /\ _current_album_items' =
           _current_album_items \o matched_items(init_task.current_album, source_items)
    /\ _running_store' = NoTask
    /\ init_task' = [pc |-> "done", current_album |-> <<>>]

\* _async_init: _read_store returns (line 177)
InitLoadReturns ==
    /\ init_task.pc = "load"
    /\ LET stored_data == read_store(_store)
       IN  IF ~stored_data.is_none /\ stored_data.current_album # <<>>
           THEN /\ init_task' = [pc |-> "fetch", 
                                 current_album |-> stored_data.current_album]
                /\ UNCHANGED <<_current_album_items, _running_store>>
           ELSE /\ init_task' = [init_task EXCEPT !.pc = "done"]
                /\ _running_store' = NoTask
                /\ UNCHANGED _current_album_items
    /\ UNCHANGED <<cal, sel, config_entry, _last_viewed, _last_store, _store,
                   clock_now, clock_today, call, flush, view, events>>

\* _async_init: _get_source_items returns (line 185)
InitFetchReturns ==
    /\ init_task.pc = "fetch"
    /\ InitFinish(fetch_run(fetch_begin, config_entry.source_albums, SessionAlbums))
    /\ UNCHANGED <<cal, sel, config_entry, _last_viewed, _last_store, _store,
                   clock_now, clock_today, call, flush, view, events>>

\* _async_init: the awaited call raises; the task ends with the exception
InitFails ==
    /\ init_task.pc \in {"load", "fetch"}
    /\ init_task' = [pc |-> "failed", current_album |-> <<>>]
    /\ UNCHANGED <<cal, sel, config_entry, _current_album_items, _last_viewed,
                   _last_store, _running_store, _store, clock_now, clock_today, call,
                   flush, view, events>>

\* a caller may call while no earlier call of its is running
CallerFree == call.pc \in {"idle", "returned", "raised"} /\ call.calls < MaxCalls

\* rebuild_virtual_album up to its first await (line 319)
StartRebuild(op) ==
    call' = [calls |-> call.calls + 1, op |-> op, pc |-> "fetch", source_items |-> <<>>,
             data |-> NoSaveData, before |-> _current_album_items,
             init_ended |-> init_task.pc \in {"done", "failed"}, rebuilt |-> TRUE,
             failed_at |-> "none", task |-> NoTask, in_flight |-> {},
     current |-> NoData, last_viewed |-> EmptyDict]

\* the rebuild_virtual_album service
Rebuild ==
    /\ CallerFree
    /\ StartRebuild("rebuild")
    /\ UNCHANGED <<cal, sel, config_entry, _current_album_items, _last_viewed,
                   _last_store, _running_store, _store, clock_now, clock_today,
                   init_task, flush, view, events>>

\* get_virtual_album_items that always rebuilds
get_virtual_album_items_always ==
    StartRebuild("get_items")

\* get_virtual_album_items, lines 387-390
get_virtual_album_items ==
    IF _current_album_items = <<>>
    THEN StartRebuild("get_items")
    ELSE call' = [IdleCall EXCEPT !.calls = call.calls + 1, !.op = "get_items", !.pc = "returned",
                                  !.before = _current_album_items,
                                  !.init_ended = init_task.pc \in {"done", "failed"}]

GetItems ==
    /\ CallerFree
    /\ get_virtual_album_items
    /\ UNCHANGED <<cal, sel, config_entry, _current_album_items, _last_viewed,
                   _last_store, _running_store, _store, clock_now, clock_today,
                   init_task, flush, view, events>>

\* rebuild_virtual_album: _get_source_items returns (line 319)
CallFetchReturns ==
    /\ call.pc = "fetch"
    /\ call' = [call EXCEPT
                   !.pc = "load",
                   !.source_items = fetch_run(fetch_begin, config_entry.source_albums,
                                              SessionAlbums)]
    /\ UNCHANGED <<cal, sel, config_entry, _current_album_items, _last_viewed,
                   _last_store, _running_store, _store, clock_now, clock_today,
                   init_task, flush, view, events>>

\* the arguments of _write_store with no item marked as viewed
write_store_args_no_views(new_items, current_image, today) ==
    LET new_ids == [i \in 1..Len(new_items) |-> new_items[i].item_id]
    IN  [current_album |-> new_ids, last_viewed |-> EmptyDict]

\* lines 375-382: the arguments of _write_store
write_store_args(new_items, current_image, today) ==
    LET new_ids == [i \in 1..Len(new_items) |-> new_items[i].item_id]
    IN  [current_album |-> new_ids,
         last_viewed |-> IF ~current_image THEN fromkeys(new_ids, toordinal(today))
                         ELSE EmptyDict]

\* rebuild_virtual_album: _read_store returns (line 328); lines 329-384 up to
\* the _read_store of _write_store
CallLoadReturns ==
    /\ call.pc = "load"
    /\ \E source_items \in shuffled_and_sorted(call.source_items, read_store(_store)) :
        LET new_items == select_items(source_items, config_entry, clock_today)
        IN  /\ _current_album_items' = new_items
            /\ call' = [call EXCEPT
                           !.pc = "wread",
                           !.source_items = <<>>,
                           !.data = write_store_args(new_items,
                                                     config_entry.current_image,
                                                     clock_today)]
    /\ UNCHANGED <<cal, sel, config_entry, _last_viewed, _last_store, _running_store,
                   _store, clock_now, clock_today, init_task, flush, view, events>>

\* _write_store of the rebuild: _read_store returns (line 215)
CallWriteReadReturns ==
    /\ call.pc = "wread"
    /\ call' = [call EXCEPT
                   !.pc = "save",
                   !.current = read_store(_store),
                   !.last_viewed = call.data.last_viewed,
                   !.data = write_store_data(read_store(_store), call.data.last_viewed,
                                             call.data.current_album)]
    /\ UNCHANGED <<cal, sel, config_entry, _current_album_items, _last_viewed,
                   _last_store, _running_store, _store, clock_now, clock_today,
                   init_task, flush, view, events>>

\* _write_store of the rebuild: async_save returns (lines 225-227)
CallSaveReturns ==
    /\ call.pc = "save"
    /\ _store' = to_json(call.data)
    /\ _running_store' = NoTask
    /\ call' = [call EXCEPT !.pc = "returned", !.data = NoSaveData,
                            !.current = NoData, !.last_viewed = EmptyDict]
    /\ UNCHANGED <<cal, sel, config_entry, _current_album_items, _last_viewed,
                   _last_store, clock_now, clock_today, init_task, flush, view, events>>

\* the awaited call of a rebuild raises: the exception leaves rebuild_virtual_album
CallFails ==
    /\ call.pc \in {"fetch", "load", "wread", "save"}
    /\ call' = [call EXCEPT !.pc = "raised",
                            !.source_items = <<>>, !.data = NoSaveData,
                            !.current = NoData, !.last_viewed = EmptyDict,
                            !.failed_at = call.pc]
    /\ UNCHANGED <<cal, sel, config_entry, _current_album_items, _last_viewed,
                   _last_store, _running_store, _store, clock_now, clock_today,
                   init_task, flush, view, events>>

\* the flush tasks that have been created and have not ended
FlushesInFlight == {i \in 1..MaxFlush : flush[i].pc \in {"read", "save"}}

\* how the task a Task object refers to has ended, "running" while it has not
task_state(task) ==
    IF task.kind = "init"
    THEN (IF init_task.pc \in {"done", "failed"} THEN init_task.pc ELSE "running")
    ELSE IF flush[task.id].pc \in {"done", "failed"} THEN flush[task.id].pc
    ELSE "running"

\* shutdown, lines 172-174, up to its await or its return
shutdown ==
    IF _running_store # NoTask
    THEN call' = [IdleCall EXCEPT !.calls = call.calls + 1, !.op = "shutdown",
                                  !.pc = "await",
                                  !.in_flight = FlushesInFlight,
                                  !.before = _current_album_items,
                                  !.init_ended = init_task.pc \in {"done", "failed"},
                                  !.task = _running_store]
    ELSE call' = [IdleCall EXCEPT !.calls = call.calls + 1, !.op = "shutdown",
                                  !.pc = "returned",
                                  !.in_flight = FlushesInFlight,
                                  !.before = _current_album_items,
                                  !.init_ended = init_task.pc \in {"done", "failed"}]

\* async_unload_entry awaits shutdown
Shutdown ==
    /\ CallerFree
    /\ shutdown
    /\ UNCHANGED <<cal, sel, config_entry, _current_album_items, _last_viewed,
                   _last_store, _running_store, _store, clock_now, clock_today,
                   init_task, flush, view, events>>

\* shutdown: the awaited task has ended; its exception is raised in shutdown
ShutdownAwaitReturns ==
    /\ call.pc = "await"
    /\ task_state(call.task) # "running"
    /\ call' = [call EXCEPT
                   !.pc = IF task_state(call.task) = "done" THEN "returned"
                          ELSE "raised",
                   !.failed_at = IF task_state(call.task) = "done" THEN "none"
                                 ELSE "await"]
    /\ UNCHANGED <<cal, sel, config_entry, _current_album_items, _last_viewed,
                   _last_store, _running_store, _store, clock_now, clock_today,
                   init_task, flush, view, events>>

\* the flush task a create_task of _queue_cache_write makes: the first not yet made
HasFreeFlush(tasks) == \E i \in 1..MaxFlush : tasks[i].pc = "idle"

FreeFlush(tasks) ==
    CHOOSE i \in 1..MaxFlush :
        tasks[i].pc = "idle" /\ \A j \in 1..(i - 1) : tasks[j].pc # "idle"

\* _queue_cache_write starting a flush as soon as the interval has passed
queue_cache_write_at_interval(s, time) ==
    IF s.last_store = NoTime
    THEN [s EXCEPT !.last_store = time]
    ELSE IF time - s.last_store >= STORE_INTERVAL_SECONDS
         THEN IF s.running_store = NoTask
              THEN [last_viewed |-> EmptyDict,
                    last_store |-> time,
                    running_store |-> FlushTask(FreeFlush(s.flush)),
                    flush |-> [s.flush EXCEPT ![FreeFlush(s.flush)] =
                                  [pc |-> "read", started |-> time,
                                   last_viewed |-> s.last_viewed,
                                   current |-> NoData, data |-> NoSaveData]],
                    log |-> "info"]
              ELSE [s EXCEPT !.log = "warning"]
         ELSE s

\* _queue_cache_write emptying the buffer when the store is still running
queue_cache_write_drop(s, time) ==
    IF s.last_store = NoTime
    THEN [s EXCEPT !.last_store = time]
    ELSE IF time - s.last_store > STORE_INTERVAL_SECONDS
         THEN IF s.running_store = NoTask
              THEN [last_viewed |-> EmptyDict,
                    last_store |-> time,
                    running_store |-> FlushTask(FreeFlush(s.flush)),
                    flush |-> [s.flush EXCEPT ![FreeFlush(s.flush)] =
                                  [pc |-> "read", started |-> time,
                                   last_viewed |-> s.last_viewed,
                                   current |-> NoData, data |-> NoSaveData]],
                    log |-> "info"]
              ELSE [s EXCEPT !.log = "warning", !.last_viewed = EmptyDict]
         ELSE s

\* _queue_cache_write leaving the buffer as it is when it creates the task
queue_cache_write_keep_buffer(s, time) ==
    IF s.last_store = NoTime
    THEN [s EXCEPT !.last_store = time]
    ELSE IF time - s.last_store > STORE_INTERVAL_SECONDS
         THEN IF s.running_store = NoTask
              THEN [last_viewed |-> s.last_viewed,
                    last_store |-> time,
                    running_store |-> FlushTask(FreeFlush(s.flush)),
                    flush |-> [s.flush EXCEPT ![FreeFlush(s.flush)] =
                                  [pc |-> "read", started |-> time,
                                   last_viewed |-> s.last_viewed,
                                   current |-> NoData, data |-> NoSaveData]],
                    log |-> "info"]
              ELSE [s EXCEPT !.log = "warning"]
         ELSE s

\* _queue_cache_write on s = [last_viewed, last_store, running_store, flush, log],
\* with datetime.datetime.now() passed in as time
queue_cache_write(s, time) ==
    IF s.last_store = NoTime
    THEN [s EXCEPT !.last_store = time]
    ELSE IF time - s.last_store > STORE_INTERVAL_SECONDS
         THEN IF s.running_store = NoTask
              THEN [last_viewed |-> EmptyDict,
                    last_store |-> time,
                    running_store |-> FlushTask(FreeFlush(s.flush)),
                    flush |-> [s.flush EXCEPT ![FreeFlush(s.flush)] =
                                  [pc |-> "read", started |-> time,
                                   last_viewed |-> s.last_viewed,
                                   current |-> NoData, data |-> NoSaveData]],
                    log |-> "info"]
              ELSE [s EXCEPT !.log = "warning"]
         ELSE s

\* the state-changed events of the current-image entity: no new state, a path
\* of too few segments, and the paths
\* /synology_dsm/<server>/<thumbnail key>/<file name> of each photo's key and
\* of a key (0) no photo has
Urls ==
    {[new_state |-> FALSE, path |-> <<>>],
     [new_state |-> TRUE, path |-> <<"", "synology_dsm", "server">>]}
    \cup {[new_state |-> TRUE, path |-> <<"", "synology_dsm", "server", key, "file">>] :
             key \in 0..MaxSourceItems}

\* lines 261-272: the item of the album the url names, as a list of at most one
url_item(url) ==
    IF url.new_state /\ Len(url.path) > 3
    THEN FirstWithKey(_current_album_items, url.path[4])
    ELSE <<>>

\* lines 275-280 with last_viewed the buffer to queue: _queue_cache_write, then
\* the handler goes on to the outcome given
queue_and_go_on(last_viewed, result, awaiting_info) ==
    LET q == queue_cache_write(
                 [last_viewed |-> last_viewed,
                  last_store |-> _last_store,
                  running_store |-> _running_store,
                  flush |-> flush,
                  log |-> "none"],
                 clock_now)
    IN  /\ awaiting_info <= MaxAwaitingInfo
        /\ events + awaiting_info <= MaxEvents
        /\ HasFreeFlush(flush)
        /\ _last_viewed' = q.last_viewed
        /\ _last_store' = q.last_store
        /\ _running_store' = q.running_store
        /\ flush' = q.flush
        /\ view' = [result |-> result, log |-> q.log, awaiting_info |-> awaiting_info]

\* lines 274-280 for the item found: record the view, queue the write, await
\* get_info
record_view(item) ==
    queue_and_go_on(DictUpdate(_last_viewed,
                               fromkeys(<<item.item_id>>, toordinal(clock_today))),
                    "hit", view.awaiting_info + 1)

\* _async_update_current_image calling _queue_cache_write for every new
\* state, whether or not the url names an item of the album
update_current_image_queue_always(url) ==
    IF ~url.new_state
    THEN /\ view' = [view EXCEPT !.result = "no_state", !.log = "none"]
         /\ UNCHANGED <<_last_viewed, _last_store, _running_store, flush>>
    ELSE IF url_item(url) # <<>> THEN record_view(Head(url_item(url)))
    ELSE queue_and_go_on(_last_viewed, "miss", view.awaiting_info)

\* _async_update_current_image up to its await or its return
update_current_image(url) ==
    IF ~url.new_state
    THEN /\ view' = [view EXCEPT !.result = "no_state", !.log = "none"]
         /\ UNCHANGED <<_last_viewed, _last_store, _running_store, flush>>
    ELSE IF url_item(url) # <<>> THEN record_view(Head(url_item(url)))
    ELSE /\ view' = [view EXCEPT !.result = "miss", !.log = "warning"]
         /\ UNCHANGED <<_last_viewed, _last_store, _running_store, flush>>

\* the current-image entity changes state; the listener is registered only
\* when the entity is configured (lines 163-168)
UpdateCurrentImage ==
    /\ config_entry.current_image
    /\ \E url \in Urls : update_current_image(url)
    /\ UNCHANGED <<cal, sel, config_entry, _current_album_items, _store, clock_now,
                   clock_today, init_task, call, events>>

\* _async_update_current_image: get_info returns, the event is fired (lines 280-285)
InfoReturns ==
    /\ view.awaiting_info > 0
    /\ view' = [view EXCEPT !.awaiting_info = @ - 1]
    /\ events' = events + 1
    /\ UNCHANGED <<cal, sel, config_entry, _current_album_items, _last_viewed,
                   _last_store, _running_store, _store, clock_now, clock_today,
                   init_task, call, flush>>

\* _async_update_current_image: get_info raises, no event is fired
InfoFails ==
    /\ view.awaiting_info > 0
    /\ view' = [view EXCEPT !.awaiting_info = @ - 1]
    /\ UNCHANGED <<cal, sel, config_entry, _current_album_items, _last_viewed,
                   _last_store, _running_store, _store, clock_now, clock_today,
                   init_task, call, flush, events>>

\* _write_store of a flush task: _read_store returns (line 215)
FlushReadReturns(i) ==
    /\ flush[i].pc = "read"
    /\ flush' = [flush EXCEPT
                    ![i].pc = "save",
                    ![i].current = read_store(_store),
                    ![i].data = write_store_data(read_store(_store),
                                                 flush[i].last_viewed, <<>>)]
    /\ UNCHANGED <<cal, sel, config_entry, _current_album_items, _last_viewed,
                   _last_store, _running_store, _store, clock_now, clock_today,
                   init_task, call, view, events>>

\* _write_store of a flush task: async_save returns (lines 225-227)
FlushSaveReturns(i) ==
    /\ flush[i].pc = "save"
    /\ _store' = to_json(flush[i].data)
    /\ _running_store' = NoTask
    /\ flush' = [flush EXCEPT ![i].pc = "done", ![i].current = NoData,
                              ![i].data = NoSaveData]
    /\ UNCHANGED <<cal, sel, config_entry, _current_album_items, _last_viewed,
                   _last_store, clock_now, clock_today, init_task, call, view, events>>

\* _write_store of a flush task: the awaited call raises, the task ends
FlushFails(i) ==
    /\ flush[i].pc \in {"read", "save"}
    /\ flush' = [flush EXCEPT ![i].pc = "failed", ![i].current = NoData,
                              ![i].data = NoSaveData]
    /\ UNCHANGED <<cal, sel, config_entry, _current_album_items, _last_viewed,
                   _last_store, _running_store, _store, clock_now, clock_today,
                   init_task, call, view, events>>

\* the wall clock advances by STORE_INTERVAL_SECONDS.  Only line 233 of
\* _queue_cache_write reads it: its first read only stores it, so time is
\* counted from then, and once more than the interval has passed since
\* _last_store more time changes no outcome of the comparison of line 234.
Tick ==
    /\ _last_store # NoTime
    /\ clock_now - _last_store <= STORE_INTERVAL_SECONDS
    /\ clock_now < MaxTicks * STORE_INTERVAL_SECONDS
    /\ clock_now' = clock_now + STORE_INTERVAL_SECONDS
    /\ UNCHANGED <<cal, sel, config_entry, _current_album_items, _last_viewed,
                   _last_store, _running_store, _store, clock_today, init_task, call,
                   flush, view, events>>

Next ==
    \/ InitLoadReturns
    \/ InitFetchReturns
    \/ InitFails
    \/ Rebuild
    \/ GetItems
    \/ CallFetchReturns
    \/ CallLoadReturns
    \/ CallWriteReadReturns
    \/ CallSaveReturns
    \/ CallFails
    \/ Shutdown
    \/ ShutdownAwaitReturns
    \/ UpdateCurrentImage
    \/ InfoReturns
    \/ InfoFails
    \/ \E i \in 1..MaxFlush : FlushReadReturns(i)
    \/ \E i \in 1..MaxFlush : FlushSaveReturns(i)
    \/ \E i \in 1..MaxFlush : FlushFails(i)
    \/ Tick

Spec == Init /\ [][Next]_vars

\* a step in which a caller calls get_virtual_album_items
GetItemsCalled ==
    /\ call'.calls = call.calls + 1
    /\ call'.op = "get_items"

\* C3: get_virtual_album_items starts a rebuild exactly when the album is
\* empty at the call; with a non-empty album it returns at once, fetching
\* nothing, and leaves the album and the store as they are
C3_LazyRebuild ==
    [][GetItemsCalled =>
          /\ call'.pc = "fetch" <=> _current_album_items = <<>>
          /\ call'.rebuilt <=> _current_album_items = <<>>
          /\ _current_album_items # <<>> =>
                 /\ call'.pc = "returned"
                 /\ call'.before = _current_album_items
                 /\ UNCHANGED <<_current_album_items, _store>>]_vars

C3_ReturnedCached ==
    /\ call.op = "get_items"
    /\ call.pc = "returned"
    /\ ~call.rebuilt
    /\ call.before # <<>>
    /\ _current_album_items = call.before

\* a step of another task than a rebuild that leaves the album it found,
\* not empty, with more items after it
AppendsToAlbum ==
    /\ call' = call
    /\ _current_album_items # <<>>
    /\ Len(_current_album_items') > Len(_current_album_items)
    /\ SubSeq(_current_album_items', 1, Len(_current_album_items))
           = _current_album_items

\* C4: the album changes only in the step of a rebuild that assigns its
\* selection; no step appends items to an album that exists
C4_ReplacedWholesale ==
    [][/\ _current_album_items # <<>> /\ _current_album_items' # _current_album_items
           => call.pc = "load" /\ call'.pc = "wread"
       /\ ~AppendsToAlbum]_vars

\* a step in which a rebuild ends with the exception of an awaited call, the
\* startup task having ended before the rebuild began
RebuildRaised ==
    /\ call.pc \in {"fetch", "load", "wread", "save"}
    /\ call'.pc = "raised"
    /\ call.init_ended

\* C5: when a rebuild ends with a failure of any of its awaited calls, the
\* album is what it was when the rebuild began
C5_AllOrNothing ==
    [][RebuildRaised => _current_album_items' = call.before]_vars

\* a step in which _async_update_current_image finds no item for the url
LookupMissed ==
    /\ view.result # "miss"
    /\ view'.result = "miss"

\* C9: a view event whose url names no item of the album, or has too few
\* path segments, changes neither the buffer, the last store time, the
\* running store task, the album nor the store, starts no flush, and leads
\* to no event
C9_MissChangesNothing ==
    [][LookupMissed =>
          /\ UNCHANGED <<_last_viewed, _last_store, _running_store,
                         _current_album_items, _store, flush, events>>
          /\ view'.awaiting_info = view.awaiting_info]_vars

C9_MissedOnAlbum ==
    /\ view.result = "miss"
    /\ view.log = "warning"
    /\ _current_album_items # <<>>
    /\ _last_viewed # EmptyDict

\* C10: once a flush task has saved, every load of the store returns, for
\* each id of the flush's snapshot, the snapshot's ordinal or a later one
C10_FlushedViewsKept ==
    \A i \in 1..MaxFlush :
        flush[i].pc = "done" =>
            \A id \in DOMAIN flush[i].last_viewed :
                /\ id \in DOMAIN read_store(_store).last_viewed
                /\ read_store(_store).last_viewed[id] >= flush[i].last_viewed[id]

\* the runs of _write_store between their _read_store and the return of
\* their async_save: the one of a rebuild and those of the flush tasks
SavesInFlight ==
    (IF call.pc \in {"wread", "save"} THEN 1 ELSE 0)
    + Cardinality({i \in 1..MaxFlush : flush[i].pc \in {"read", "save"}})

\* C11: at most one read-merge-write of the store is in flight at any time
C11_OneSaveInFlight == SavesInFlight <= 1

\* a step in which a call of shutdown returns to async_unload_entry
ShutdownReturns ==
    /\ call' # call
    /\ call'.op = "shutdown"
    /\ call'.pc = "returned"

\* C12: when shutdown returns, every flush task that was in flight when
\* shutdown was called has ended
C12_ShutdownAwaitsFlushes ==
    [][ShutdownReturns => call'.in_flight \cap FlushesInFlight' = {}]_vars

\* the recency mapping a save leaves is the one it read overridden by the one
\* it was given: every identifier of either is there, those of new_last_viewed
\* with their new instant and the others with the instant they had
MergedInto(current, new_last_viewed, saved) ==
    LET previous == IF current.is_none THEN EmptyDict ELSE current.last_viewed
    IN  /\ ~saved.is_none
        /\ DOMAIN saved.last_viewed = DOMAIN previous \cup DOMAIN new_last_viewed
        /\ \A id \in DOMAIN new_last_viewed :
              saved.last_viewed[id] = new_last_viewed[id]
        /\ \A id \in DOMAIN previous \ DOMAIN new_last_viewed :
              saved.last_viewed[id] = previous[id]

\* C13: a save merges, it does not replace: when the async_save of a
\* _write_store returns and the store is still what its _read_store returned,
\* the stored recency mapping is the previous one overridden by new_last_viewed
C13_SaveMerges ==
    [][/\ \A i \in 1..MaxFlush :
             /\ flush[i].pc = "save"
             /\ flush'[i].pc = "done"
             /\ flush[i].current = read_store(_store)
             => MergedInto(flush[i].current, flush[i].last_viewed, read_store(_store'))
       /\ /\ call.pc = "save"
          /\ call'.pc = "returned"
          /\ call.current = read_store(_store)
          => MergedInto(call.current, call.last_viewed, read_store(_store'))]_vars

\* a flush has saved views of photos other than those of the mapping it read,
\* which still holds the others
C13_MergedWithOlder ==
    \E i \in 1..MaxFlush :
        /\ flush[i].pc = "done"
        /\ DOMAIN flush[i].last_viewed # {}
        /\ ~_store.is_none
        /\ \A id \in DOMAIN flush[i].last_viewed :
              /\ id \in DOMAIN read_store(_store).last_viewed
              /\ read_store(_store).last_viewed[id] = flush[i].last_viewed[id]
        /\ DOMAIN read_store(_store).last_viewed \ DOMAIN flush[i].last_viewed # {}

\* the flush tasks _queue_cache_write has created
FlushesStarted == {i \in 1..MaxFlush : flush[i].pc # "idle"}

\* C14: the start times of any two flush tasks are more than
\* STORE_INTERVAL_SECONDS apart
C14_FlushesAnIntervalApart ==
    \A i, j \in FlushesStarted :
        i < j => flush[j].started - flush[i].started > STORE_INTERVAL_SECONDS

\* two flush tasks have been started
C14_TwoFlushesStarted == Cardinality(FlushesStarted) = 2

\* a step of the view handler in which _queue_cache_write finds the interval
\* elapsed while the flush task _running_store holds is in flight
Contended ==
    /\ view'.awaiting_info = view.awaiting_info + 1
    /\ view'.log = "warning"
    /\ _running_store # NoTask
    /\ _running_store.kind = "flush"
    /\ task_state(_running_store) = "running"

\* a step of the view handler in which _queue_cache_write creates flush task i
FlushStarts(i) == flush[i].pc = "idle" /\ flush'[i].pc = "read"

\* C15 as stated: on contention no second flush is started and the buffered
\* views are dropped, not kept for a later flush
C15_ContendedViewsDropped ==
    [][Contended => /\ \A i \in 1..MaxFlush : ~FlushStarts(i)
                    /\ _last_viewed' = EmptyDict]_vars

\* C15: on contention no second flush is started and the buffered views, the
\* one just recorded included, stay in the buffer; the next flush task to be
\* created takes the whole buffer as its snapshot
C15_ContendedViewsKept ==
    [][/\ Contended =>
             /\ \A i \in 1..MaxFlush : ~FlushStarts(i)
             /\ _last_viewed' # EmptyDict
             /\ \A id \in DOMAIN _last_viewed : id \in DOMAIN _last_viewed'
       /\ \A i \in 1..MaxFlush :
             FlushStarts(i) =>
                 /\ _last_viewed' = EmptyDict
                 /\ \A id \in DOMAIN _last_viewed :
                       id \in DOMAIN flush'[i].last_viewed]_vars

\* a view has just been recorded with a warning, the flush task still in
\* flight, and the buffer holds it
C15_WarnedWithFlushInFlight ==
    /\ view.result = "hit"
    /\ view.log = "warning"
    /\ _running_store # NoTask
    /\ _running_store.kind = "flush"
    /\ task_state(_running_store) = "running"
    /\ _last_viewed # EmptyDict

\* the configured source albums get_album returns None for
UnresolvedAlbums ==
    {source_album_str \in Range(config_entry.source_albums) :
        int(source_album_str) \notin DOMAIN SessionAlbums}

\* C16: with a configured source album the provider cannot resolve there is
\* no session whose rebuild has returned a selection built from the albums
\* that remain
C16_NoSelectionFromRemaining ==
    UnresolvedAlbums # {} =>
        ~(call.rebuilt /\ call.pc = "returned" /\ _current_album_items # <<>>)

\* no call of get_virtual_album_items or rebuild_virtual_album has been made
NoCallYet == call.calls = 0

\* the ids of the stored album that are ids of source items, in stored order
StoredAlbumIds ==
    LET source_items == get_source_items(config_entry.source_albums, SessionAlbums)
        IsSourceId(item_id) == item_id \in Range(ItemIds(source_items))
    IN  SelectSeq(read_store(_store).current_album, IsSourceId)

\* C17 as stated: the album is empty until the first call of
\* get_virtual_album_items or rebuild_virtual_album
C17_EmptyUntilFirstCall == NoCallYet => _current_album_items = <<>>

\* C17: until the first call the album is empty while the startup task runs
\* and when it has failed; once the task has ended the album holds the source
\* items of the stored album, in stored order
C17_RestoredAtStartup ==
    NoCallYet =>
        /\ init_task.pc # "done" => _current_album_items = <<>>
        /\ init_task.pc = "done" =>
              /\ ItemIds(_current_album_items) = StoredAlbumIds
              /\ \A item \in Range(_current_album_items) :
                    item \in Range(get_source_items(config_entry.source_albums,
                                                    SessionAlbums))

\* the startup task has restored a stored album and no call has been made
C17_RestoredBeforeAnyCall ==
    /\ NoCallYet
    /\ init_task.pc = "done"
    /\ _current_album_items # <<>>

\* the selections a second run can make of the source items, store, config
\* entry and date of the run done
OtherRuns ==
    {select_items(source_items, sel.config, sel.today) :
        source_items \in shuffled_and_sorted(sel.source_items, sel.stored_data)}

\* the today and this-week buckets of every order the shuffle and the sort
\* can leave hold the same items
SameCategories ==
    \A source_items \in shuffled_and_sorted(sel.source_items, sel.stored_data) :
        /\ Range(this_day_items(source_items, sel.today))
               = Range(this_day_items(sel.sorted_items, sel.today))
        /\ Range(this_week_items(source_items, sel.today))
               = Range(this_week_items(sel.sorted_items, sel.today))

\* no two source items have the same stored last-viewed ordinal
DistinctRecency ==
    \A i, j \in 1..Len(sel.source_items) :
        Recency(sel.source_items[i]) = Recency(sel.source_items[j]) => i = j

\* C18: two runs on the same source items, store, config entry and date put
\* every item in the same bucket; their selections have the same length and,
\* place by place, items of the same recency; with no two items of the same
\* recency the selections are the same
C18_SameUpToEqualRecency ==
    SelDone =>
        /\ SameCategories
        /\ \A new_items \in OtherRuns :
              /\ Len(new_items) = Len(sel.new_items)
              /\ \A i \in 1..Len(new_items) :
                    Recency(new_items[i]) = Recency(sel.new_items[i])
        /\ DistinctRecency => OtherRuns = {sel.new_items}

\* a second run selects other items than the run done, and both select some
C18_RunsDiffer ==
    /\ SelDone
    /\ sel.new_items # <<>>
    /\ \E new_items \in OtherRuns : Range(new_items) # Range(sel.new_items)

(***************************************************************************)
(* The quotas of a rebuild, lines 333-335, on config entries of the sizes  *)
(* the config flow accepts.                                                *)
(***************************************************************************)

\* lines 333-335: max_album_items, daily_max and weekly_max from the config
\* entry
quotas(config_data) ==
    [max_album_items |-> config_data.max_album_items,
     daily_max |-> Min(config_data.daily, config_data.max_album_items),
     weekly_max |-> Min(config_data.weekly, config_data.max_album_items)]

\* the values of the album size and of the daily and weekly settings tried
QuotaSizes == {0, 1, 2, 3, 10, 100, 250, 500}
QuotaSettings == {0, 1, 25, 50, 99, 100}

QuotaConfigs ==
    [max_album_items : QuotaSizes, daily : QuotaSettings, weekly : QuotaSettings]

NoQuotas == [max_album_items |-> 0, daily_max |-> 0, weekly_max |-> 0]

QuotaInit ==
    /\ cal = CalIdle
    /\ SessionOff
    /\ sel \in [pc : {"config"}, config : QuotaConfigs, quotas : {NoQuotas}]

\* lines 333-335 of a rebuild
QuotaRead ==
    /\ sel.pc = "config"
    /\ sel' = [sel EXCEPT !.pc = "quotas", !.quotas = quotas(sel.config)]
    /\ UNCHANGED <<cal, svars>>

QuotaNext == QuotaRead

SpecQuota == QuotaInit /\ [][QuotaNext]_vars

\* C19: daily_max is the floor of max_album_items times the daily setting
\* over 100, and weekly_max the same of the weekly setting
C19_PercentOfMaxItems ==
    sel.pc = "quotas" =>
        /\ sel.quotas.daily_max
               = (sel.config.max_album_items * sel.config.daily) \div 100
        /\ sel.quotas.weekly_max
               = (sel.config.max_album_items * sel.config.weekly) \div 100

\* the numbers of items the daily and the weekly step of lines 360-361 take
DailyTaken ==
    Min(quotas(sel.config).daily_max,
        Min(sel.config.max_album_items,
            Cardinality(InBucket(sel.source_items, "day"))))

WeeklyTaken ==
    Min(quotas(sel.config).weekly_max,
        Min(sel.config.max_album_items - DailyTaken,
            Cardinality(InBucket(sel.source_items, "week"))))

\* C20 as stated: the selection holds exactly DailyTaken items of today and
\* exactly as many items of this week as the weekly quota, the room the today
\* items of the selection leave and the bucket allow; when the two numbers
\* make max_album_items it holds no other item
C20_BucketCounts ==
    SelDone =>
        /\ Cardinality(InBucket(sel.new_items, "day")) = DailyTaken
        /\ Cardinality(InBucket(sel.new_items, "week"))
               = Min(quotas(sel.config).weekly_max,
                     Min(sel.config.max_album_items
                             - Cardinality(InBucket(sel.new_items, "day")),
                         Cardinality(InBucket(sel.source_items, "week"))))
        /\ Cardinality(InBucket(sel.new_items, "day"))
               + Cardinality(InBucket(sel.new_items, "week"))
               = sel.config.max_album_items
             => InBucket(sel.new_items, "none") = {}

\* C20: the selection starts with the first DailyTaken items of the today
\* bucket, then the first WeeklyTaken items of the this-week bucket; what
\* follows is the fill, of items not yet taken, today and this-week items the
\* two steps left included; when the two steps take max_album_items items the
\* fill is empty
C20_StepCounts ==
    SelDone =>
        /\ Len(sel.new_items) >= DailyTaken + WeeklyTaken
        /\ SubSeq(sel.new_items, 1, DailyTaken)
               = SubSeq(this_day_items(sel.sorted_items, sel.today), 1, DailyTaken)
        /\ SubSeq(sel.new_items, DailyTaken + 1, DailyTaken + WeeklyTaken)
               = SubSeq(this_week_items(sel.sorted_items, sel.today), 1, WeeklyTaken)
        /\ \A i \in (DailyTaken + WeeklyTaken + 1)..Len(sel.new_items) :
              \A j \in 1..(DailyTaken + WeeklyTaken) :
                  sel.new_items[i] # sel.new_items[j]
        /\ DailyTaken + WeeklyTaken = sel.config.max_album_items
             => Len(sel.new_items) = DailyTaken + WeeklyTaken

\* the daily step took fewer today items than the selection holds: the fill
\* took the others
C20_TodayItemInFill ==
    /\ SelDone
    /\ quotas(sel.config).daily_max > 0
    /\ Cardinality(InBucket(sel.new_items, "day")) > DailyTaken

\* the sets of items the daily step and the weekly step take of their bucket
\* in the runs that can be made of the source items, store, config entry and
\* date of the run done
DailyOutcomes == {Range(SubSeq(new_items, 1, DailyTaken)) : new_items \in OtherRuns}

WeeklyOutcomes ==
    {Range(SubSeq(new_items, DailyTaken + 1, DailyTaken + WeeklyTaken)) :
        new_items \in OtherRuns}

\* the subsets of k of the items of a bucket
SubsetsOfSize(items, k) == {S \in SUBSET Range(items) : Cardinality(S) = k}

\* C21: when a bucket holds more items than the step takes, every subset of
\* that size of the bucket is taken in some run, whatever the recency mapping
C21_EverySubsetPossible ==
    SelDone =>
        /\ Len(this_day_items(sel.sorted_items, sel.today)) > DailyTaken
             => SubsetsOfSize(this_day_items(sel.sorted_items, sel.today), DailyTaken)
                    \subseteq DailyOutcomes
        /\ Len(this_week_items(sel.sorted_items, sel.today)) > WeeklyTaken
             => SubsetsOfSize(this_week_items(sel.sorted_items, sel.today), WeeklyTaken)
                    \subseteq WeeklyOutcomes

\* the places of the selection the fill step of line 371 wrote
FillPlaces == (DailyTaken + WeeklyTaken + 1)..Len(sel.new_items)

\* the items of the general pool the fill step left: the source items that
\* are not in the selection
LeftOut == {item \in Range(sel.sorted_items) : item \notin Range(sel.new_items)}

\* C22: every item the fill step selects has a recency (0 without an entry)
\* less than or equal to that of every general-pool item left unselected
C22_FillLeastRecentFirst ==
    SelDone =>
        \A i \in FillPlaces, item \in LeftOut :
            Recency(sel.new_items[i]) <= Recency(item)

\* the fill step selected an item and left out one viewed later, with the
\* daily or the weekly step having taken an item before
C22_FillLeftLaterViewed ==
    /\ SelDone
    /\ DailyTaken + WeeklyTaken > 0
    /\ \E i \in FillPlaces, item \in LeftOut :
           Recency(sel.new_items[i]) < Recency(item)

\* the items the daily step, the weekly step and the fill step put in the
\* selection
DailyPart == SubSeq(sel.new_items, 1, DailyTaken)
WeeklyPart == SubSeq(sel.new_items, DailyTaken + 1, DailyTaken + WeeklyTaken)
FillPart == SubSeq(sel.new_items, DailyTaken + WeeklyTaken + 1, Len(sel.new_items))

BufferWithView(item_id) ==
    DictUpdate(_last_viewed, fromkeys(<<item_id>>, toordinal(clock_today)))

\* C24: the snapshot of a flush task is the buffer at the moment the task is
\* created, the view just recorded included, and the buffer is empty right
\* after; the snapshot never changes afterwards, so views recorded while the
\* task is in flight are in the buffer only, and what the task saves is what
\* it read overridden by its snapshot
C24_SnapshotAtStart ==
    [][\A i \in 1..MaxFlush :
          /\ FlushStarts(i) =>
                /\ \E item \in Range(_current_album_items) :
                      flush'[i].last_viewed = BufferWithView(item.item_id)
                /\ _last_viewed' = EmptyDict
          /\ flush[i].pc # "idle" => flush'[i].last_viewed = flush[i].last_viewed
          /\ flush[i].pc = "save" /\ flush'[i].pc = "done" =>
                MergedInto(flush[i].current, flush[i].last_viewed,
                           read_store(_store'))]_vars

\* a view has been recorded while a flush task is in flight: the buffer
\* holds it
C24_ViewDuringFlush ==
    \E i \in 1..MaxFlush :
        /\ flush[i].pc \in {"read", "save"}
        /\ _last_viewed # EmptyDict
        /\ view.result = "hit"
        /\ view.log = "none"

\* C25: in every state of the session the album holds at most
\* max_album_items items and no item id twice
C25_AlbumBounded ==
    /\ Len(_current_album_items) <= config_entry.max_album_items
    /\ NoDuplicates(ItemIds(_current_album_items))

(***************************************************************************)
(* One rebuild on its own, from the return of its _get_source_items to     *)
(* its own return, for the config entries, source items, stores and        *)
(* previous albums below, empty ones among them.                           *)
(***************************************************************************)

RebuildConfigs ==
    [source_albums : {<<"1">>}, max_album_items : {0, 1}, daily : {0, 1},
     weekly : {0, 1}, current_image : BOOLEAN]

\* what _get_source_items returned: nothing, or a prefix of album 1
RebuildSources == {SubSeq(SessionAlbums[1], 1, n) : n \in 0..Len(SessionAlbums[1])}

\* the store when the rebuild starts: never saved, or saved by an earlier run
RebuildStores ==
    {NoData,
     to_json([current_album |-> <<>>, last_viewed |-> EmptyDict]),
     to_json([current_album |-> <<1>>, last_viewed |-> [id \in {1} |-> Yesterday]])}

\* rebuild_virtual_album at the return of _get_source_items (line 319), the
\* startup task ended
RebuildInit ==
    /\ cal = CalIdle
    /\ sel = SelIdle
    /\ config_entry \in RebuildConfigs
    /\ _store \in RebuildStores
    /\ _current_album_items \in {<<>>, <<SessionAlbums[1][1]>>}
    /\ _last_viewed = EmptyDict
    /\ _last_store = NoTime
    /\ _running_store = NoTask
    /\ clock_now = 0
    /\ clock_today = SelToday
    /\ init_task = [pc |-> "done", current_album |-> <<>>]
    /\ \E source_items \in RebuildSources :
          call = [IdleCall EXCEPT !.calls = 1, !.op = "rebuild", !.pc = "load",
                                  !.source_items = source_items,
                                  !.before = _current_album_items,
                                  !.init_ended = TRUE, !.rebuilt = TRUE]
    /\ flush = [i \in 1..MaxFlush |-> IdleFlush]
    /\ view = IdleView
    /\ events = 0

RebuildNext == CallLoadReturns \/ CallWriteReadReturns \/ CallSaveReturns

SpecRebuild == RebuildInit /\ [][RebuildNext]_vars

\* a step in which a rebuild's _write_store, and so the rebuild, returns
RebuildCompletes == call.pc = "save" /\ call'.pc = "returned" /\ call.rebuilt

\* C26: when a rebuild completes, the album ids in the store are the ids of
\* the album, an empty album included
C26_StoredAlbumIsAlbum ==
    [][RebuildCompletes =>
          /\ ~_store'.is_none
          /\ read_store(_store').current_album = ItemIds(_current_album_items')]_vars

\* a step in which a rebuild makes its selection (lines 328-373)
RebuildSelects == call.pc = "load" /\ call'.pc = "wread"

\* the source items of the running rebuild that have no entry in the stored
\* last_viewed
NeverViewed ==
    {i \in 1..Len(call.source_items) :
        call.source_items[i].item_id \notin DOMAIN read_store(_store).last_viewed}

\* C27: with no current-image entity configured, when a rebuild completes
\* every id of its selection is in the stored last_viewed with today's
\* ordinal; and a rebuild whose source items are all of the general pool, with
\* at least max_album_items of them never viewed, selects no item of the
\* album stored by the rebuild before
C27_SelectionMarkedViewed ==
    [][~config_entry.current_image =>
          /\ RebuildCompletes =>
                /\ call.data.current_album # <<>>
                /\ \A item_id \in Range(call.data.current_album) :
                      /\ item_id \in DOMAIN read_store(_store').last_viewed
                      /\ read_store(_store').last_viewed[item_id]
                             = toordinal(clock_today)
          /\ /\ RebuildSelects
             /\ this_day_items(call.source_items, clock_today) = <<>>
             /\ this_week_items(call.source_items, clock_today) = <<>>
             /\ Cardinality(NeverViewed) >= config_entry.max_album_items
             => \A item \in Range(_current_album_items') :
                   item.item_id \notin Range(read_store(_store).current_album)]_vars

\* with no current-image entity, a second rebuild has completed with another
\* album than the first, and both photos are stored as viewed today
C27_SecondRebuildOtherItems ==
    /\ ~config_entry.current_image
    /\ call.calls = 2
    /\ call.rebuilt
    /\ call.pc = "returned"
    /\ call.before # <<>>
    /\ init_task.pc = "done"
    /\ Len(_current_album_items) = 1
    /\ Range(ItemIds(call.before)) \cap Range(ItemIds(_current_album_items)) = {}
    /\ ~_store.is_none
    /\ \A item_id \in {1, 2} :
          /\ item_id \in DOMAIN read_store(_store).last_viewed
          /\ read_store(_store).last_viewed[item_id] = toordinal(clock_today)

\* a step of the view handler in which _queue_cache_write finds the interval
\* elapsed
ViewWithIntervalElapsed ==
    /\ view'.awaiting_info = view.awaiting_info + 1
    /\ _last_store # NoTime
    /\ clock_now - _last_store > STORE_INTERVAL_SECONDS

\* C28: _running_store holds no task that has ended, with or without an
\* exception, so that a view that finds the interval elapsed and no task
\* running starts a flush
C28_FlagClearedAtTaskEnd ==
    [][/\ _running_store # NoTask => task_state(_running_store) = "running"
       /\ /\ ViewWithIntervalElapsed
          /\ _running_store # NoTask => task_state(_running_store) # "running"
          => \E i \in 1..MaxFlush : FlushStarts(i)]_vars

(***************************************************************************)
(* SpecLive: the session with a current-image entity, running on with no   *)
(* end: the clock is counted from _last_store, ended flush tasks are       *)
(* released, fired events are not counted, and no awaited load, save or    *)
(* fetch raises.                                                           *)
(***************************************************************************)

LiveInit ==
    /\ Init
    /\ config_entry.current_image

\* _async_update_current_image for a url that names an item of the album
\* (lines 261-287), with get_info returned or raised; the event fired at line
\* 285 is not counted.  Line 233 reads only the difference of now and
\* _last_store: when _queue_cache_write sets _last_store, both are counted
\* from it on, and the creation times of the tasks are dropped.
LiveHit ==
    /\ config_entry.current_image
    /\ HasFreeFlush(flush)
    /\ \E url \in Urls :
        /\ url_item(url) # <<>>
        /\ \E q \in {queue_cache_write(
                        [last_viewed |-> DictUpdate(_last_viewed,
                                            fromkeys(<<Head(url_item(url)).item_id>>,
                                                     toordinal(clock_today))),
                         last_store |-> _last_store,
                         running_store |-> _running_store,
                         flush |-> flush,
                         log |-> "none"],
                        clock_now)} :
               /\ _last_viewed' = q.last_viewed
               /\ _last_store' = 0
               /\ clock_now' = clock_now - q.last_store
               /\ _running_store' = q.running_store
               /\ flush' = [i \in 1..MaxFlush |-> [q.flush[i] EXCEPT !.started = NoTime]]
               /\ view' = [result |-> "hit", log |-> q.log, awaiting_info |-> 0]
    /\ UNCHANGED <<cal, sel, config_entry, _current_album_items, _store,
                   clock_today, init_task, call, events>>

\* the Task object of a flush task that has ended is released
LiveFlushReleased(i) ==
    /\ flush[i].pc = "done"
    /\ flush' = [flush EXCEPT ![i] = IdleFlush]
    /\ UNCHANGED <<cal, sel, config_entry, _current_album_items, _last_viewed,
                   _last_store, _running_store, _store, clock_now, clock_today,
                   init_task, call, view, events>>

\* the rebuilds a caller asks for while the entity shows items
LiveCalls == 1

LiveRebuild == call.calls < LiveCalls /\ Rebuild

LiveNext ==
    \/ InitLoadReturns
    \/ InitFetchReturns
    \/ LiveRebuild
    \/ CallFetchReturns
    \/ CallLoadReturns
    \/ CallWriteReadReturns
    \/ CallSaveReturns
    \/ LiveHit
    \/ \E i \in 1..MaxFlush : FlushReadReturns(i)
    \/ \E i \in 1..MaxFlush : FlushSaveReturns(i)
    \/ \E i \in 1..MaxFlush : LiveFlushReleased(i)
    \/ Tick

\* the steps of one task: its position lets one of them happen at a time
LiveInitStep == InitLoadReturns \/ InitFetchReturns

LiveCallStep ==
    CallFetchReturns \/ CallLoadReturns \/ CallWriteReadReturns \/ CallSaveReturns

LiveFlushStep(i) == FlushReadReturns(i) \/ FlushSaveReturns(i) \/ LiveFlushReleased(i)

\* the event loop runs every task that can go on and the awaited calls end;
\* the entity goes on showing album items and the clock goes on
LiveFairness ==
    /\ WF_vars(LiveInitStep)
    /\ WF_vars(LiveCallStep)
    /\ \A i \in 1..MaxFlush : WF_vars(LiveFlushStep(i))
    /\ WF_vars(LiveHit)
    /\ WF_vars(Tick)

SpecLive == LiveInit /\ [][LiveNext]_vars /\ LiveFairness

\* the view of item_id waits in the buffer of the session
Recorded(item_id) == item_id \in DOMAIN _last_viewed

\* the stored mapping holds item_id with the day of the view or a later one
Durable(item_id) ==
    /\ ~_store.is_none
    /\ item_id \in DOMAIN read_store(_store).last_viewed
    /\ read_store(_store).last_viewed[item_id] >= toordinal(clock_today)

\* C29: while views of album items keep arriving, the clock goes on and every
\* load and save returns, each view recorded in the buffer is later in the
\* saved mapping, with the day of the view or a later one
C29_ViewsBecomeDurable ==
    \A item_id \in {1, 2} : Recorded(item_id) ~> Durable(item_id)

\* a flush task has saved a view: no store of InitialStores holds today's
\* day, and with the entity configured a rebuild saves no views
C29_FlushedView ==
    \E i \in 1..MaxFlush :
        /\ flush[i].pc = "done"
        /\ \E item_id \in DOMAIN flush[i].last_viewed :
              Durable(item_id)

=============================================================================
